---- MODULE Spec2Model ----
(***************************************************************************)
(* us-flag-status: the scraper (Status Updater) and the API (Status        *)
(* Reader) over one S3 bucket.                                             *)
(*                                                                         *)
(*   src/src/scraper/scraper_handler.py   Updater                          *)
(*   src/src/api/api_handler.py           Reader                           *)
(*                                                                         *)
(* The bucket is a function from object keys to parsed JSON documents.     *)
(* Keys are sequences of byte values, so that the archive key built by     *)
(* save_proclamation, the substring test of get_proclamation and the       *)
(* byte order of list_objects_v2 are computed, not assumed.                *)
(* json.dumps followed by json.loads preserves a JSON-born dict, so a      *)
(* stored body is kept as the record it parses to.                         *)
(***************************************************************************)
EXTENDS Integers, Sequences, FiniteSets, TLC

VARIABLES
    s3,        \* the bucket: key (byte sequence) -> document
    clock,     \* number of datetime.utcnow() stamps the Updater has taken
    year,      \* datetime.now().year as last observed
    result,    \* what the last sequential Updater invocation returned / did
    apiResp,   \* what the last Reader invocation returned
    issued,    \* LongSpec: number of distinct ids the inference service has produced
    pc,        \* ConcSpec: per overlapping run, the statement it is at
    local,     \* ConcSpec: per overlapping run, its flag_data and index_data
    hist       \* ConcSpec: observations about the overlapping runs

vars == <<s3, clock, year, result, apiResp, issued, pc, local, hist>>

----------------------------------------------------------------------------
(* Bounds of the model.                                                    *)

MaxClock == 2          \* Spec: Updater runs that reach extract_flag_data
FirstYear == 2025      \* the calendar year of the first run
NumYears == 2          \* calendar years a behaviour may span
MaxLongClock == 12     \* LongSpec: Updater runs
NumLongIds == 11       \* LongSpec: distinct proclamation ids
MaxConcClock == 3      \* ConcSpec: Updater runs started

LastYear == FirstYear + NumYears - 1

----------------------------------------------------------------------------
(* JSON values.  A key of a dict that is missing is AbsentV, a JSON null   *)
(* is NullV; dict.get(k) returns None for both.                            *)

AbsentV == "<absent>"
NullV == "<null>"

\* Python truthiness of flag_data.get('proclamation_id') for string ids.
Truthy(v) == v \notin {AbsentV, NullV, ""}

\* The proclamation ids of Spec.  "b" occurs inside "ab".
Ids == {"b", "ab"}

\* The proclamation ids of LongSpec, in the order the service first produces them.
LongIdNames == <<"c", "d", "e", "f", "g", "h", "i", "j", "k", "l", "m", "n", "o", "p">>

LongId(n) == LongIdNames[n]

\* str.encode of an id: its bytes.
Utf8(id) ==
    CASE id = "" -> <<>>
      [] id = "b" -> <<98>>
      [] id = "ab" -> <<97, 98>>
      [] id = "zz" -> <<122, 122>>
      [] OTHER -> <<98 + (CHOOSE n \in 1..Len(LongIdNames) : LongIdNames[n] = id)>>

\* str(n) for a non-negative integer, as bytes.
RECURSIVE Digits(_)
Digits(n) == IF n < 10 THEN <<48 + n>> ELSE Digits(n \div 10) \o <<48 + (n % 10)>>

CurrentKey == <<99, 117, 114, 114, 101, 110, 116, 46, 106, 115, 111, 110>>   \* current.json
IndexKey == <<105, 110, 100, 101, 120, 46, 106, 115, 111, 110>>             \* index.json
ArchivePrefix ==
    <<112, 114, 111, 99, 108, 97, 109, 97, 116, 105, 111, 110, 115, 47>>    \* proclamations/
JsonSuffix == <<46, 106, 115, 111, 110>>                                    \* .json

\* f"proclamations/{year}/{proclamation_id}.json"
archive_key(yr, id) == ArchivePrefix \o Digits(yr) \o <<47>> \o Utf8(id) \o JsonSuffix

HasPrefix(k, p) == Len(k) >= Len(p) /\ SubSeq(k, 1, Len(p)) = p

\* Python's `needle in haystack` for strings.
Contains(hay, needle) ==
    \E i \in 0..(Len(hay) - Len(needle)) : SubSeq(hay, i + 1, i + Len(needle)) = needle

\* UTF-8 binary order, the order list_objects_v2 returns keys in.
SeqLess(a, b) ==
    \E i \in 1..(Len(a) + 1) :
        /\ i <= Len(b)
        /\ \A j \in 1..(i - 1) : a[j] = b[j]
        /\ (i = Len(a) + 1 \/ a[i] < b[i])

ArchiveKeys(s) == {k \in DOMAIN s : HasPrefix(k, ArchivePrefix)}

\* s3.put_object: overwrite.
Put(s, k, doc) == [x \in (DOMAIN s) \cup {k} |-> IF x = k THEN doc ELSE s[x]]

----------------------------------------------------------------------------
(* The inference service's answer.                                         *)
(*   shape "error"   : invoke_model raises, the body is not JSON, or the   *)
(*                     result is not shaped as dicts (AttributeError ...)  *)
(*   shape "empty"   : the result is the empty dict                        *)
(*   shape "content" : the result carries the content blocks               *)
(* A text block is described by what re.search(r'\{.*\}') and json.loads    *)
(* make of it: block "none" (no match), "bad" (a match json.loads          *)
(* rejects), "object" (a match that parses to the dict obj).               *)
(* Of a parsed dict the model keeps status, reason, proclamation_id and    *)
(* proclamation_url; the other keys are carried as these are and are never *)
(* read by the code.                                                       *)

Obj(st, rs, id, url) ==
    [status |-> st, reason |-> rs, proclamation_id |-> id, proclamation_url |-> url]

EmptyObj == Obj(AbsentV, AbsentV, AbsentV, AbsentV)

\* The dicts a text block of Spec parses to: the two ids at half staff, full
\* staff without an id, half staff without an id, half staff with the empty id,
\* and a status outside the schema with a null reason.
Url == "https://whitehouse.gov/p"

Objects ==
    {Obj("half_staff", "r", "b", Url),
     Obj("half_staff", "r", "ab", Url),
     Obj("full_staff", "No active proclamations", AbsentV, AbsentV),
     Obj("half_staff", "r", AbsentV, AbsentV),
     Obj("half_staff", AbsentV, "", NullV),
     Obj("lowered", NullV, "b", Url)}

TextItem(block, obj) == [type |-> "text", block |-> block, obj |-> obj]
ToolItem == [type |-> "tool_use", block |-> "none", obj |-> EmptyObj]

Response(shape, content) == [shape |-> shape, content |-> content]

Responses ==
    {Response("error", <<>>), Response("empty", <<>>),
     Response("content", <<ToolItem>>),
     Response("content", <<TextItem("bad", EmptyObj), TextItem("object", Obj("half_staff", "r", "b", Url))>>),
     Response("content", <<TextItem("object", EmptyObj)>>)}
    \cup {Response("content", <<ToolItem, TextItem("none", EmptyObj), TextItem("object", o)>>) :
            o \in Objects}

Flag(st, rs, id, url, ts) ==
    [status |-> st, reason |-> rs, proclamation_id |-> id, proclamation_url |-> url,
     last_updated |-> ts]

NoFlag == Flag(AbsentV, AbsentV, AbsentV, AbsentV, 0)

----------------------------------------------------------------------------
(* The Updater: src/src/scraper/scraper_handler.py                         *)

\* The position of the first text block in which re.search finds a brace block
\* (the loop of lines 128-135 stops there), 0 when there is none.
FirstMatch(content) ==
    LET hits == {i \in 1..Len(content) :
                    content[i].type = "text" /\ content[i].block # "none"}
    IN IF hits = {} THEN 0 ELSE CHOOSE i \in hits : \A j \in hits : i <= j

\* The safe default of lines 155-160.
DefaultFlag(now) == Flag("full_staff", "Unable to parse flag status", AbsentV, NullV, now)

\* Lines 141-150: stamp, then backfill the keys that are missing.
Normalize(obj, now) ==
    Flag(IF obj.status = AbsentV THEN "full_staff" ELSE obj.status,
         IF obj.reason = AbsentV THEN "No active proclamations" ELSE obj.reason,
         obj.proclamation_id, obj.proclamation_url, now)

extract_flag_data(resp, now) ==
    LET m == FirstMatch(resp.content)
    IN IF m # 0 /\ resp.content[m].block = "bad"
       THEN DefaultFlag(now)                    \* json.loads raises JSONDecodeError
       ELSE IF m # 0 /\ resp.content[m].obj # EmptyObj
       THEN Normalize(resp.content[m].obj, now)
       ELSE \* `not json_data`: no match, or the match parsed to {}.
            \* json.loads(str(bedrock_response)) accepts only the repr "{}".
            IF resp.shape = "empty"
            THEN Normalize(EmptyObj, now)
            ELSE DefaultFlag(now)

\* None is [ok |-> FALSE]: every exception of lines 91-112 is caught at 114.
search_flag_proclamations(resp, now) ==
    IF resp.shape = "error"
    THEN [ok |-> FALSE, flag |-> NoFlag]
    ELSE [ok |-> TRUE, flag |-> extract_flag_data(resp, now)]

update_current_status(s, flag_data, fault) ==
    IF fault = "put_current"
    THEN [s3 |-> s, raised |-> TRUE]
    ELSE [s3 |-> Put(s, CurrentKey, flag_data), raised |-> FALSE]

NewIndex == [active_proclamations |-> <<>>, recent_proclamations |-> <<>>]

InSeq(x, q) == \E i \in 1..Len(q) : q[i] = x

\* update_active without the membership test of line 197.
update_active_unchecked(active, flag_data) ==
    LET proclamation_id == flag_data.proclamation_id
    IN IF flag_data.status = "half_staff" /\ Truthy(proclamation_id)
       THEN Append(active, proclamation_id)
       ELSE <<>>

\* Lines 195-200.
update_active(active, flag_data) ==
    LET proclamation_id == flag_data.proclamation_id
    IN IF flag_data.status = "half_staff" /\ Truthy(proclamation_id)
       THEN IF ~InSeq(proclamation_id, active)
            THEN Append(active, proclamation_id)
            ELSE active
       ELSE <<>>

RecentCap == 10

\* update_recent without the slice of line 206.
update_recent_untruncated(recent, flag_data) ==
    LET proclamation_id == flag_data.proclamation_id
    IN IF Truthy(proclamation_id) /\ ~InSeq(proclamation_id, recent)
       THEN <<proclamation_id>> \o recent
       ELSE recent

\* Lines 202-206.
update_recent(recent, flag_data) ==
    LET proclamation_id == flag_data.proclamation_id
    IN IF Truthy(proclamation_id) /\ ~InSeq(proclamation_id, recent)
       THEN SubSeq(<<proclamation_id>> \o recent, 1,
                   IF Len(recent) + 1 < RecentCap THEN Len(recent) + 1 ELSE RecentCap)
       ELSE recent

\* IndexDoc without the stamp of line 208 (0: a new index has no last_updated).
IndexDocUnstamped(index_data, flag_data) ==
    [active_proclamations |-> update_active(index_data.active_proclamations, flag_data),
     recent_proclamations |-> update_recent(index_data.recent_proclamations, flag_data),
     last_updated |-> IF "last_updated" \in DOMAIN index_data
                      THEN index_data.last_updated ELSE 0]

\* Lines 193-208: the new index document from the one read.
IndexDoc(index_data, flag_data) ==
    [active_proclamations |-> update_active(index_data.active_proclamations, flag_data),
     recent_proclamations |-> update_recent(index_data.recent_proclamations, flag_data),
     last_updated |-> flag_data.last_updated]

\* Lines 184-191: the stored index, or a new one on NoSuchKey.
ReadIndex(s) == IF IndexKey \in DOMAIN s THEN s[IndexKey] ELSE NewIndex

update_index(s, flag_data, fault) ==
    IF fault \in {"get_index", "put_index"}
    THEN [s3 |-> s, raised |-> TRUE]
    ELSE [s3 |-> Put(s, IndexKey, IndexDoc(ReadIndex(s), flag_data)), raised |-> FALSE]

\* save_proclamation re-raising in its except clause.
save_proclamation_raising(s, flag_data, yr, fault) ==
    LET proclamation_id == flag_data.proclamation_id
        key == archive_key(yr, proclamation_id)
    IN IF ~Truthy(proclamation_id)
       THEN [s3 |-> s, raised |-> FALSE, archive |-> "skipped"]
       ELSE IF fault = "put_archive"
       THEN [s3 |-> s, raised |-> TRUE, archive |-> "failed"]
       ELSE [s3 |-> Put(s, key, flag_data), raised |-> FALSE,
             archive |-> IF key \in DOMAIN s THEN "overwritten" ELSE "created"]

\* `archive` records what the call did, for the properties: "skipped" (no id),
\* "failed" (put_object raised, swallowed), "created", "overwritten".
save_proclamation(s, flag_data, yr, fault) ==
    LET proclamation_id == flag_data.proclamation_id
        key == archive_key(yr, proclamation_id)
    IN IF ~Truthy(proclamation_id)
       THEN [s3 |-> s, raised |-> FALSE, archive |-> "skipped"]
       ELSE IF fault = "put_archive"
       THEN [s3 |-> s, raised |-> FALSE, archive |-> "failed"]
       ELSE [s3 |-> Put(s, key, flag_data), raised |-> FALSE,
             archive |-> IF key \in DOMAIN s THEN "overwritten" ELSE "created"]

\* Line 33 without its test.
ShouldArchiveAlways(flag_data) == TRUE

\* Line 33.
ShouldArchive(flag_data) == flag_data.status = "half_staff"

\* What an invocation returned (statusCode) and, for the properties, how far it
\* got (stage), what its archive step did and, when it returned 200, the
\* flag_data it worked with.
Result(code, stage, archive, flag_data) ==
    [statusCode |-> code, stage |-> stage, archive |-> archive, flag |-> flag_data]

\* The handler with the `if not flag_data` test after the updates.
scraper_lambda_handler_late_test(s, resp, now, yr, fault) ==
    LET found == search_flag_proclamations(resp, now)
        flag_data == found.flag
        cur == update_current_status(s, flag_data, fault)
        idx == update_index(cur.s3, flag_data, fault)
    IN IF cur.raised
       THEN [s3 |-> cur.s3, result |-> Result(500, "current", "none", NoFlag)]
       ELSE IF idx.raised
       THEN [s3 |-> idx.s3, result |-> Result(500, "index", "none", NoFlag)]
       ELSE IF ~found.ok
       THEN [s3 |-> idx.s3, result |-> Result(500, "inference", "none", NoFlag)]
       ELSE [s3 |-> idx.s3, result |-> Result(200, "done", "none", flag_data)]

scraper_lambda_handler(s, resp, now, yr, fault) ==
    LET found == search_flag_proclamations(resp, now)
        flag_data == found.flag
        cur == update_current_status(s, flag_data, fault)
        idx == update_index(cur.s3, flag_data, fault)
        arc == IF ShouldArchive(flag_data)
               THEN save_proclamation(idx.s3, flag_data, yr, fault)
               ELSE [s3 |-> idx.s3, raised |-> FALSE, archive |-> "none"]
    IN IF ~found.ok
       THEN [s3 |-> s, result |-> Result(500, "inference", "none", NoFlag)]
       ELSE IF cur.raised
       THEN [s3 |-> cur.s3, result |-> Result(500, "current", "none", NoFlag)]
       ELSE IF idx.raised
       THEN [s3 |-> idx.s3, result |-> Result(500, "index", "none", NoFlag)]
       ELSE IF arc.raised
       THEN [s3 |-> arc.s3, result |-> Result(500, "archive", arc.archive, NoFlag)]
       ELSE [s3 |-> arc.s3, result |-> Result(200, "done", arc.archive, flag_data)]

Faults == {"none", "put_current", "get_index", "put_index", "put_archive"}

----------------------------------------------------------------------------
(* The Reader: src/src/api/api_handler.py                                  *)

CorsHeaders ==
    [ContentType |-> "application/json", AllowOrigin |-> "*",
     AllowHeaders |-> "Content-Type", AllowMethods |-> "GET,OPTIONS"]

create_response(status_code, body) ==
    [statusCode |-> status_code, headers |-> CorsHeaders, body |-> body]

ErrorBody(msg) == [error |-> msg]

\* `fault` is an S3 failure other than NoSuchKey.
get_current_status(s, now, fault) ==
    IF fault
    THEN create_response(500, ErrorBody("Failed to retrieve current status"))
    ELSE IF CurrentKey \in DOMAIN s
    THEN create_response(200, s[CurrentKey])
    ELSE create_response(200, Flag("full_staff", "No active proclamations", AbsentV, NullV, now))

get_proclamations(s, now, fault) ==
    IF fault
    THEN create_response(500, ErrorBody("Failed to retrieve proclamations"))
    ELSE IF IndexKey \in DOMAIN s
    THEN create_response(200, s[IndexKey])
    ELSE create_response(200, [active_proclamations |-> <<>>, recent_proclamations |-> <<>>,
                               last_updated |-> now])

\* Lines 90-92: the keys under proclamations/ that contain the id.
MatchingKeys(s, proclamation_id) ==
    {k \in ArchiveKeys(s) : Contains(k, Utf8(proclamation_id))}

\* The first of them in listing order.
FirstKey(keys) == CHOOSE k \in keys : \A j \in keys : j = k \/ SeqLess(k, j)

get_proclamation(s, proclamation_id, fault) ==
    IF ~Truthy(proclamation_id)
    THEN create_response(400, ErrorBody("Proclamation ID required"))
    ELSE IF fault
    THEN create_response(500, ErrorBody("Failed to retrieve proclamation"))
    ELSE IF MatchingKeys(s, proclamation_id) # {}
    THEN create_response(200, s[FirstKey(MatchingKeys(s, proclamation_id))])
    ELSE create_response(404, ErrorBody("Proclamation not found"))

PathCurrent == <<47, 97, 112, 105, 47, 118, 49, 47, 115, 116, 97, 116, 117, 115, 47, 99, 117, 114, 114, 101, 110, 116>>               \* /api/v1/status/current
PathProclamations == <<47, 97, 112, 105, 47, 118, 49, 47, 112, 114, 111, 99, 108, 97, 109, 97, 116, 105, 111, 110, 115>>          \* /api/v1/proclamations
PathProclamationsSlash == <<47, 97, 112, 105, 47, 118, 49, 47, 112, 114, 111, 99, 108, 97, 109, 97, 116, 105, 111, 110, 115, 47>>    \* /api/v1/proclamations/
PathOther == <<47, 104, 101, 97, 108, 116, 104>>   \* /health

\* event = {path, pathParameters: {id}}
api_lambda_handler(s, path, id, now, fault) ==
    IF path = PathCurrent
    THEN get_current_status(s, now, fault)
    ELSE IF path = PathProclamations
    THEN get_proclamations(s, now, fault)
    ELSE IF HasPrefix(path, PathProclamationsSlash)
    THEN get_proclamation(s, id, fault)
    ELSE create_response(404, ErrorBody("Not found"))

Paths == {PathCurrent, PathProclamations, PathProclamationsSlash \o Utf8("b"), PathOther}

\* pathParameters.get('id'): a stored id, an unknown id, the empty string, None.
ReaderIds == Ids \cup {"zz", "", NullV}

----------------------------------------------------------------------------
(* Spec: Updater runs one after the other, Reader requests in between.     *)

\* The outcome of an invocation together with the S3 fault injected into it.
Observed(r, fault) ==
    [statusCode |-> r.statusCode, stage |-> r.stage, archive |-> r.archive,
     flag |-> r.flag, fault |-> fault]

NoResult == Observed(Result(0, "none", "none", NoFlag), "none")
NoResponse == [statusCode |-> 0, headers |-> CorsHeaders, body |-> ErrorBody("")]
EmptyBucket == [k \in {} |-> NoFlag]

\* ConcSpec: the invocations that may overlap.
Procs == {1, 2}

Init ==
    /\ s3 = EmptyBucket
    /\ clock = 0
    /\ year = FirstYear
    /\ result = NoResult
    /\ apiResp = NoResponse
    /\ issued = 0
    /\ pc = [p \in Procs |-> "idle"]
    /\ local = [p \in Procs |-> [flag |-> NoFlag, index |-> NewIndex]]
    /\ hist = [overlapped |-> FALSE, failed |-> FALSE, stamps |-> {}]

\* The years datetime.now() may show next.
NextYears == {y \in {year, year + 1} : y <= LastYear}

\* One invocation of the scraper's lambda_handler.
UpdaterRun ==
    /\ clock < MaxClock
    /\ \E resp \in Responses, yr \in NextYears, fault \in Faults :
          LET out == scraper_lambda_handler(s3, resp, clock + 1, yr, fault)
          IN /\ s3' = out.s3
             /\ result' = Observed(out.result, fault)
             /\ clock' = IF resp.shape = "error" THEN clock ELSE clock + 1
             /\ year' = yr
    /\ UNCHANGED <<apiResp, issued, pc, local, hist>>

\* One invocation of the API's lambda_handler.
\* The gateway fills pathParameters for the {id} route only.
ReaderRequest ==
    /\ \E path \in Paths, fault \in BOOLEAN :
          \E id \in IF HasPrefix(path, PathProclamationsSlash) THEN ReaderIds ELSE {NullV} :
              apiResp' = api_lambda_handler(s3, path, id, clock, fault)
    /\ UNCHANGED <<s3, clock, year, result, issued, pc, local, hist>>

Next == UpdaterRun \/ ReaderRequest

Spec == Init /\ [][Next]_vars

----------------------------------------------------------------------------
(* LongSpec: a long season of half-staff proclamations, long enough for    *)
(* recent_proclamations to reach its cap.  Each run the inference service  *)
(* names a proclamation it has not named before, or the first one it ever  *)
(* named, or the one at the head of recent_proclamations; in between it    *)
(* may report full staff.                                                  *)

LongChoices ==
    (IF issued < NumLongIds THEN {LongId(issued + 1)} ELSE {})
    \cup (IF issued >= 1 THEN {LongId(1)} ELSE {})
    \cup (IF ReadIndex(s3).recent_proclamations # <<>>
          THEN {Head(ReadIndex(s3).recent_proclamations)} ELSE {})

LongRun(resp, n) ==
    LET out == scraper_lambda_handler(s3, resp, clock + 1, year, "none")
    IN /\ s3' = out.s3
       /\ result' = Observed(out.result, "none")
       /\ clock' = clock + 1
       /\ issued' = n
       /\ UNCHANGED <<year, apiResp, pc, local, hist>>

LongUpdaterRun ==
    /\ clock < MaxLongClock
    /\ \E id \in LongChoices :
          LongRun(Response("content", <<TextItem("object", Obj("half_staff", "r", id, Url))>>),
                  IF issued < NumLongIds /\ id = LongId(issued + 1) THEN issued + 1 ELSE issued)

LongFullStaffRun ==
    /\ clock < MaxLongClock
    /\ LongRun(Response("content",
                   <<TextItem("object", Obj("full_staff", "No active proclamations", AbsentV, AbsentV))>>),
               issued)

LongNext == LongUpdaterRun \/ LongFullStaffRun

LongSpec == Init /\ [][LongNext]_vars

----------------------------------------------------------------------------
(* ConcSpec: overlapping Updater invocations.  Each invocation is its own  *)
(* process; its S3 calls are the atomic steps, and between two of them any *)
(* other invocation may run.                                               *)
(*   pc: "idle" -> "put_current" -> "get_index" -> "put_index"             *)
(*       -> "archive" (half staff only) -> "idle"                          *)
(* hist.overlapped: some run started while another was in progress;        *)
(* hist.failed: some run returned 500; hist.stamps: the last_updated of    *)
(* the runs that returned 200.                                             *)

ConcResponses ==
    {Response("error", <<>>)}
    \cup {Response("content", <<TextItem("object", o)>>) :
            o \in {Obj("half_staff", "r", "b", Url), Obj("half_staff", "r", "ab", Url),
                   Obj("full_staff", "No active proclamations", AbsentV, AbsentV)}}

AllIdle == \A p \in Procs : pc[p] = "idle"

\* The run of p returns 500.
Abort(p) ==
    /\ pc' = [pc EXCEPT ![p] = "idle"]
    /\ hist' = [hist EXCEPT !.failed = TRUE]

\* The run of p returns 200.
Complete(p) ==
    /\ pc' = [pc EXCEPT ![p] = "idle"]
    /\ hist' = [hist EXCEPT !.stamps = @ \cup {local[p].flag.last_updated}]

\* Lines 19-26: the inference call and extract_flag_data.
Start(p) ==
    /\ pc[p] = "idle"
    /\ clock < MaxConcClock
    /\ \E resp \in ConcResponses :
          LET found == search_flag_proclamations(resp, clock + 1)
          IN IF ~found.ok
             THEN /\ hist' = [hist EXCEPT !.failed = TRUE]
                  /\ UNCHANGED <<pc, local, clock>>
             ELSE /\ pc' = [pc EXCEPT ![p] = "put_current"]
                  /\ local' = [local EXCEPT ![p].flag = found.flag]
                  /\ clock' = clock + 1
                  /\ hist' = [hist EXCEPT !.overlapped = @ \/ ~AllIdle]
    /\ UNCHANGED <<s3, year, result, apiResp, issued>>

\* Line 29.
PutCurrent(p) ==
    /\ pc[p] = "put_current"
    /\ \E fault \in {"none", "put_current"} :
          LET out == update_current_status(s3, local[p].flag, fault)
          IN /\ s3' = out.s3
             /\ IF out.raised
                THEN Abort(p)
                ELSE pc' = [pc EXCEPT ![p] = "get_index"] /\ UNCHANGED hist
    /\ UNCHANGED <<clock, year, result, apiResp, issued, local>>

\* Lines 184-191.
GetIndex(p) ==
    /\ pc[p] = "get_index"
    /\ \E fault \in {"none", "get_index"} :
          IF fault = "get_index"
          THEN Abort(p) /\ UNCHANGED local
          ELSE /\ pc' = [pc EXCEPT ![p] = "put_index"]
               /\ local' = [local EXCEPT ![p].index = ReadIndex(s3)]
               /\ UNCHANGED hist
    /\ UNCHANGED <<s3, clock, year, result, apiResp, issued>>

\* Lines 193-216, then line 33.
PutIndex(p) ==
    /\ pc[p] = "put_index"
    /\ \E fault \in {"none", "put_index"} :
          IF fault = "put_index"
          THEN Abort(p) /\ UNCHANGED s3
          ELSE /\ s3' = Put(s3, IndexKey, IndexDoc(local[p].index, local[p].flag))
               /\ IF ShouldArchive(local[p].flag)
                  THEN pc' = [pc EXCEPT ![p] = "archive"] /\ UNCHANGED hist
                  ELSE Complete(p)
    /\ UNCHANGED <<clock, year, result, apiResp, issued, local>>

\* Line 34.
Archive(p) ==
    /\ pc[p] = "archive"
    /\ \E yr \in NextYears, fault \in {"none", "put_archive"} :
          /\ s3' = save_proclamation(s3, local[p].flag, yr, fault).s3
          /\ year' = yr
    /\ Complete(p)
    /\ UNCHANGED <<clock, result, apiResp, issued, local>>

ConcNext ==
    \E p \in Procs : Start(p) \/ PutCurrent(p) \/ GetIndex(p) \/ PutIndex(p) \/ Archive(p)

ConcSpec == Init /\ [][ConcNext]_vars

----------------------------------------------------------------------------
(* Properties.                                                             *)

Index == s3[IndexKey]
Current == s3[CurrentKey]

\* The last sequential Updater run returned 200.
RunOk == result.statusCode = 200

RunHasId == Truthy(result.flag.proclamation_id)

Occurrences(x, q) == Cardinality({i \in 1..Len(q) : q[i] = x})

NoDuplicates(q) == \A i, j \in 1..Len(q) : q[i] = q[j] => i = j

\* C1 as stated: after a successful Updater run, if its status is half_staff then
\* active_proclamations is exactly the one-entry list of the run's
\* proclamation_id, and if its status is full_staff then it is empty.
C1_ExactlyOneActive ==
    RunOk =>
        /\ (result.flag.status = "half_staff" /\ RunHasId
               => Index.active_proclamations = <<result.flag.proclamation_id>>)
        /\ (result.flag.status = "full_staff" => Index.active_proclamations = <<>>)

\* C1 amended: after a successful Updater run, if its status is half_staff and it
\* carries a non-empty proclamation_id then active_proclamations contains that
\* id exactly once and holds no id twice (ids of earlier half_staff runs stay);
\* in every other case active_proclamations is empty.
C1_ActiveContainsRunId ==
    RunOk =>
        IF result.flag.status = "half_staff" /\ RunHasId
        THEN /\ Occurrences(result.flag.proclamation_id, Index.active_proclamations) = 1
             /\ NoDuplicates(Index.active_proclamations)
        ELSE Index.active_proclamations = <<>>

\* A successful half_staff run has left two active proclamations.
C1_Witness ==
    /\ RunOk
    /\ result.flag.status = "half_staff"
    /\ RunHasId
    /\ Len(Index.active_proclamations) = 2

\* C2: recent_proclamations never has more than 10 entries and never holds an
\* id at two positions.
C2_RecentCappedDistinct ==
    IndexKey \in DOMAIN s3 =>
        /\ Len(Index.recent_proclamations) <= RecentCap
        /\ NoDuplicates(Index.recent_proclamations)

\* More ids than the cap have been inserted, the list is full, and the first id
\* ever inserted, dropped in between, is back at the head.
C2_Witness ==
    /\ issued > RecentCap
    /\ IndexKey \in DOMAIN s3
    /\ Len(Index.recent_proclamations) = RecentCap
    /\ Head(Index.recent_proclamations) = LongId(1)

\* C3: an Updater run whose inference call fails returns 500 and leaves every
\* object of the bucket as it was.
C3_InferenceFailureKeepsStore ==
    [][result'.stage = "inference" => result'.statusCode = 500 /\ s3' = s3]_vars

\* The inference call failed while the bucket held documents of an earlier run.
C3_Witness ==
    /\ result.stage = "inference"
    /\ CurrentKey \in DOMAIN s3
    /\ IndexKey \in DOMAIN s3

\* C4 as stated: the record in current.json has status half_staff or full_staff
\* and a reason that is not null, whatever the inference service answered.
C4_StatusInEnumReasonNonNull ==
    CurrentKey \in DOMAIN s3 =>
        /\ Current.status \in {"half_staff", "full_staff"}
        /\ Current.reason \notin {NullV, AbsentV}

\* C5 as stated: whenever current.json has status half_staff, its proclamation_id
\* is present and not null.
C5_HalfStaffHasId ==
    CurrentKey \in DOMAIN s3 /\ Current.status = "half_staff"
        => Current.proclamation_id \notin {NullV, AbsentV}

\* C6 as stated: get_proclamation(p) returns 200 and the record R for every
\* archived record R with proclamation_id p, whatever other archive keys there
\* are.  (Stated for the records that are the only one with their id.)
C6_RoundTrip ==
    \A k \in ArchiveKeys(s3) :
        (\A j \in ArchiveKeys(s3) :
            s3[j].proclamation_id = s3[k].proclamation_id => j = k)
        => get_proclamation(s3, s3[k].proclamation_id, FALSE) = create_response(200, s3[k])

C8_FailureSemantics ==
    [][clock' # clock =>
          /\ (result'.fault \in {"put_current", "get_index", "put_index"}
                 => result'.statusCode = 500)
          /\ (result'.fault = "put_archive" =>
                 /\ result'.statusCode = 200
                 /\ s3'[CurrentKey] = result'.flag
                 /\ s3'[IndexKey] = IndexDoc(ReadIndex(s3), result'.flag))]_vars

\* The archive write of a half_staff run failed and the run returned 200.
C8_Witness ==
    /\ result.fault = "put_archive"
    /\ result.archive = "failed"
    /\ RunOk
    /\ Current = result.flag

\* C9 as stated: after a successful run whose record carries a proclamation_id,
\* that id is the first element of recent_proclamations.
C9_RunIdAtHead ==
    RunOk /\ RunHasId => Head(Index.recent_proclamations) = result.flag.proclamation_id

\* What C10 speaks of: overlapping runs, all returned 200, none in progress.
AllSucceeded == AllIdle /\ ~hist.failed /\ hist.stamps # {}

\* C10 as stated: when overlapping runs have all finished successfully,
\* index.json and current.json carry the same last_updated.
C10_SameRun ==
    AllSucceeded /\ hist.overlapped => Index.last_updated = Current.last_updated

\* C10 amended: when the runs have all finished successfully, the last_updated of
\* index.json and that of current.json are each the stamp of one of these runs
\* (the last writer of that document), and they are the same stamp when no two
\* runs overlapped.
C10_LastWriterWins ==
    AllSucceeded =>
        /\ Index.last_updated \in hist.stamps
        /\ Current.last_updated \in hist.stamps
        /\ (~hist.overlapped => Index.last_updated = Current.last_updated)

\* Two overlapping runs have finished successfully and the two documents come
\* from different runs.
C10_Witness ==
    /\ AllSucceeded
    /\ hist.overlapped
    /\ Index.last_updated # Current.last_updated

====
